---- MODULE Spec2Model ----
(***************************************************************************)
(* A model of gogridfs (src/gogridfs.go): an HTTP handler, fileHandler,    *)
(* that cuts the handle path off the request path, fetches the GridFS file *)
(* of that name or id with getFile and writes it to the response.          *)
(*                                                                         *)
(* Every HTTP request runs in its own goroutine.  A request r walks        *)
(* through fileHandler and getFile one store operation at a time:          *)
(*   Request (lines 105-114), Open (60-74), Read (77-88, one iteration),   *)
(*   Finish (90-101), Respond (116-127).                                   *)
(* The GridFS store (labix.org/v2/mgo) is the environment: which objects   *)
(* it holds, whether an open succeeds, how many bytes a Read returns and   *)
(* with which error, and what Close would return are its choices.          *)
(***************************************************************************)
EXTENDS Integers, Sequences, FiniteSets, TLC

\* ------------------------------------------------------------------ bounds

\* Longest stored object, in bytes.
MaxLen == 3

\* Length of the buffer handed to Read.  The program uses 4096 (line 78); the
\* model scales it down so that objects longer than one buffer exist.
ReadBufLen == 2

\* The store answers at most MaxReads reads of one handle without an error;
\* the read after those ends with end-of-stream or with a failure.
MaxReads == 3

\* ------------------------------------------------------------- the program

\* The in-flight HTTP requests (one goroutine each).
Reqs == {1, 2}

\* The handles (*mgo.GridFile) the store can hand out: one per open.
HandleIds == {1, 2}

NoHandle == 0

\* config.HandlePath, the prefix the handler is registered under (line 194).
HandlePath == <<"/", "f", "/">>

\* The lookup keys clients ask for.  "a" and "b" each are the id of one
\* object and the filename of the other; "c" names nothing.
Keys == {<<"a">>, <<"b">>, <<"c">>}

\* r.URL.Path of a request routed to fileHandler: the mux only routes paths
\* below HandlePath to it.
Paths == {HandlePath \o k : k \in Keys}

\* The two objects of the store, by position in gfs.
ObjIds == {1, 2}

\* Byte i of object o; all bytes of all objects differ.
ByteOf(o, i) == 10 * o + i

\* An object of n bytes.
Content(o, n) == [i \in 1..n |-> ByteOf(o, i)]

\* config.Field values (line 39).
Fields == {"_id", "filename"}

VARIABLES
    conf,       \* ggfs.Conf: [Field, Debug]; HandlePath is fixed above
    gfs,        \* ggfs.GFS: the stored objects, ObjIds -> [id, name, data]
    closeErr,   \* what gfsFile.Close() returns in this store
    handles,    \* the store's handles: HandleIds -> [obj, offset, open]
    pc,         \* per request: where its goroutine is
    urlPath,    \* per request: r.URL.Path
    path,       \* fileHandler's local path (the lookup key)
    gfsFile,    \* getFile's local gfsFile: a handle id or NoHandle
    file,       \* getFile's result file (bytes.Buffer), then fileHandler's data
    filename,   \* getFile's result filename
    err,        \* getFile's named result err (function scope)
    loopErr,    \* the err declared inside the loop body (line 79)
    opens,      \* per request: the open operations issued, in order
    reads,      \* per request: number of Read calls issued
    closes,     \* per request: number of Close calls issued
    logged,     \* per request: what it wrote to ggfs.Logger, in order
    response    \* per request: [status, header, body]

vars == <<conf, gfs, closeErr, handles, pc, urlPath, path, gfsFile, file,
          filename, err, loopErr, opens, reads, closes, logged, response>>

\* The zero value of a string / of a bytes.Buffer.
Empty == <<>>

NoResponse == [status |-> 0, header |-> Empty, body |-> Empty]

FreeHandle == [obj |-> 0, offset |-> 0, open |-> FALSE]

Init ==
    /\ conf \in [Field : Fields, Debug : BOOLEAN]
    /\ \E n \in 0..MaxLen :
         gfs = [o \in ObjIds |->
                  IF o = 1
                  THEN [id |-> <<"a">>, name |-> <<"b">>, data |-> Content(1, n)]
                  ELSE [id |-> <<"b">>, name |-> <<"a">>, data |-> Content(2, MaxLen)]]
    /\ closeErr \in {"nil", "IOError"}
    /\ handles = [h \in HandleIds |-> FreeHandle]
    /\ pc = [r \in Reqs |-> "idle"]
    /\ urlPath = [r \in Reqs |-> Empty]
    /\ path = [r \in Reqs |-> Empty]
    /\ gfsFile = [r \in Reqs |-> NoHandle]
    /\ file = [r \in Reqs |-> Empty]
    /\ filename = [r \in Reqs |-> Empty]
    /\ err = [r \in Reqs |-> "nil"]
    /\ loopErr = [r \in Reqs |-> "nil"]
    /\ opens = [r \in Reqs |-> Empty]
    /\ reads = [r \in Reqs |-> 0]
    /\ closes = [r \in Reqs |-> 0]
    /\ logged = [r \in Reqs |-> Empty]
    /\ response = [r \in Reqs |-> NoResponse]

\* ------------------------------------------------------------ fileHandler

\* A slice that starts one byte early (a faulty variant of LookupKey).
LookupKeyOffByOne(p) == SubSeq(p, Len(HandlePath), Len(p))

\* Line 109: path := r.URL.Path[len(ggfs.Conf.HandlePath):]
LookupKey(p) == SubSeq(p, Len(HandlePath) + 1, Len(p))

\* Lines 112-114: the requested path is printed when debugging.
LogDebug(lg, key) == IF conf.Debug = TRUE THEN Append(lg, <<"path", key>>) ELSE lg

\* A request arrives and fileHandler runs up to the call of getFile.
Request(r) ==
    /\ pc[r] = "idle"
    /\ \E p \in Paths :
         /\ urlPath' = [urlPath EXCEPT ![r] = p]
         /\ path' = [path EXCEPT ![r] = LookupKey(p)]
         /\ logged' = [logged EXCEPT ![r] = LogDebug(logged[r], LookupKey(p))]
    /\ pc' = [pc EXCEPT ![r] = "open"]
    /\ UNCHANGED <<conf, gfs, closeErr, handles, gfsFile, file, filename, err,
                   loopErr, opens, reads, closes, response>>

\* ---------------------------------------------------------------- getFile

\* The field ignored, every key opened as a filename (a faulty variant of OpenOp).
OpenOpByName(field) == "Open"

\* Lines 64-68: the open operation getFile issues for a field.
OpenOp(field) == IF field = "_id" THEN "OpenId" ELSE "Open"

\* The objects an open operation resolves a key to: OpenId compares the key
\* with the objects' ids, Open with their filenames.
Resolve(op, key) ==
    {o \in ObjIds : IF op = "OpenId" THEN gfs[o].id = key ELSE gfs[o].name = key}

\* The errors an open can end with: the key resolves to nothing, or the
\* store is unreachable (the session connects lazily).
OpenErrors(op, key) ==
    IF Resolve(op, key) = {} THEN {"ErrNotFound", "IOError"} ELSE {"IOError"}

\* One GridFile shared by all opens (a faulty variant of NewHandle).
NewHandleShared == CHOOSE h \in HandleIds : \A g \in HandleIds : h <= g

\* Every open returns a GridFile of its own: a handle no one holds.
NewHandle == CHOOSE h \in HandleIds : handles[h].obj = 0

\* A buffer kept between calls: a later call starts with what the call
\* before it left (a faulty variant of NewBuffer).
NewBufferKept(r) == IF r = 1 THEN Empty ELSE file[1]

\* Line 60: the result file is a bytes.Buffer of the call, empty at entry.
NewBuffer(r) == Empty

\* Lines 62-74: open the file; on an error return the zero results and the
\* error, otherwise take the file's name.
Open(r) ==
    /\ pc[r] = "open"
    /\ LET op == OpenOp(conf.Field) IN
       /\ opens' = [opens EXCEPT ![r] = Append(opens[r], op)]
       /\ file' = [file EXCEPT ![r] = NewBuffer(r)]
       /\ \/ \E o \in Resolve(op, path[r]) :
               LET h == NewHandle IN
               /\ handles' = [handles EXCEPT ![h] = [obj |-> o, offset |-> 0, open |-> TRUE]]
               /\ gfsFile' = [gfsFile EXCEPT ![r] = h]
               /\ err' = [err EXCEPT ![r] = "nil"]
               /\ filename' = [filename EXCEPT ![r] = gfs[o].name]
               /\ pc' = [pc EXCEPT ![r] = "read"]
          \/ \E e \in OpenErrors(op, path[r]) :
               /\ err' = [err EXCEPT ![r] = e]
               /\ pc' = [pc EXCEPT ![r] = "respond"]
               /\ UNCHANGED <<handles, gfsFile, filename>>
    /\ UNCHANGED <<conf, gfs, closeErr, urlPath, path, loopErr, reads, closes,
                   logged, response>>

Min(a, b) == IF a < b THEN a ELSE b

\* Line 78 and the store's side of line 79: a fresh zeroed buffer whose first
\* k bytes are the k bytes of the object after the handle's offset.
ReadInto(data, off, k) ==
    [i \in 1..ReadBufLen |-> IF i <= k THEN data[off + i] ELSE 0]

\* The error tested before the write, so that the bytes of a read that also
\* returns an error are dropped (a faulty variant of AppendRead).
AppendReadIfNoErr(f, buffer, bytes_r, e) ==
    IF bytes_r > 0 /\ e = "nil" THEN f \o SubSeq(buffer, 1, bytes_r) ELSE f

\* Lines 79-83: if bytes_r > 0 { file.Write(buffer[:bytes_r]) }.  The write
\* comes before the test of the error e of the same Read, which therefore has
\* no part in it.
AppendRead(f, buffer, bytes_r, e) ==
    IF bytes_r > 0 THEN f \o SubSeq(buffer, 1, bytes_r) ELSE f

\* A loop left on end-of-stream only (a faulty variant of LoopExit).
LoopExitOnEOF(e) == e = "EOF"

\* Lines 85-87: if err != nil { break }
LoopExit(e) == e # "nil"

\* What one Read of handle h can return: between 0 bytes and as many as the
\* buffer and the rest of the object allow, with no error, with io.EOF (only
\* once the object is delivered whole) or with a failure.
ReadResults(h, issued) ==
    LET rest == Len(gfs[handles[h].obj].data) - handles[h].offset IN
    {res \in (0..Min(ReadBufLen, rest)) \X {"nil", "EOF", "IOError"} :
        /\ res[2] = "EOF" => res[1] = rest
        /\ res[2] = "nil" => issued < MaxReads}

\* Lines 77-88, one iteration of the loop.
Read(r) ==
    /\ pc[r] = "read"
    /\ reads[r] <= MaxReads
    /\ LET h == gfsFile[r] IN
       \E res \in ReadResults(h, reads[r]) :
         LET bytes_r == res[1]
             e == res[2]
             buffer == ReadInto(gfs[handles[h].obj].data, handles[h].offset, bytes_r)
         IN
         /\ handles' = [handles EXCEPT ![h].offset = @ + bytes_r]
         /\ file' = [file EXCEPT ![r] = AppendRead(file[r], buffer, bytes_r, e)]
         /\ loopErr' = [loopErr EXCEPT ![r] = e]
         /\ pc' = [pc EXCEPT ![r] = IF LoopExit(e) THEN "finish" ELSE "read"]
    /\ reads' = [reads EXCEPT ![r] = @ + 1]
    /\ UNCHANGED <<conf, gfs, closeErr, urlPath, path, gfsFile, filename, err,
                   opens, closes, logged, response>>

\* Lines 90-101.  The err tested on line 91 is getFile's result err: the err
\* that Read assigned was declared by := inside the loop body and is out of
\* scope here.  If err is not io.EOF getFile returns; otherwise it closes the
\* file and returns Close's error.
Finish(r) ==
    /\ pc[r] = "finish"
    /\ IF err[r] # "EOF"
       THEN UNCHANGED <<handles, closes, err>>
       ELSE /\ closes' = [closes EXCEPT ![r] = @ + 1]
            /\ handles' = [handles EXCEPT ![gfsFile[r]].open = FALSE]
            /\ err' = [err EXCEPT ![r] = closeErr]
    /\ pc' = [pc EXCEPT ![r] = "respond"]
    /\ UNCHANGED <<conf, gfs, closeErr, urlPath, path, gfsFile, file, filename,
                   loopErr, opens, reads, logged, response>>

\* ------------------------------------------------- fileHandler, continued

\* The error never logged (a faulty variant of LogErr).
LogErrSilent(lg, e) == lg

\* Lines 120-122: if err != nil { ggfs.Logger.Println(err) }
LogErr(lg, e) == IF e # "nil" THEN Append(lg, <<"error", e>>) ELSE lg

\* Line 124: fmt.Sprintf(`attachment; filename="%s"`, filename)
Disposition(name) == <<"attachment; filename=", "\"">> \o name \o <<"\"">>

\* Lines 116-127: log the error if there is one, set the header, write the
\* buffer.  The first write to the ResponseWriter sends status 200.
Respond(r) ==
    /\ pc[r] = "respond"
    /\ logged' = [logged EXCEPT ![r] = LogErr(logged[r], err[r])]
    /\ response' = [response EXCEPT ![r] =
                      [status |-> 200,
                       header |-> Disposition(filename[r]),
                       body |-> file[r]]]
    /\ pc' = [pc EXCEPT ![r] = "done"]
    /\ UNCHANGED <<conf, gfs, closeErr, handles, urlPath, path, gfsFile, file,
                   filename, err, loopErr, opens, reads, closes>>

Step(r) == Request(r) \/ Open(r) \/ Read(r) \/ Finish(r) \/ Respond(r)

Next == \E r \in Reqs : Step(r)

Spec == Init /\ [][Next]_vars

\* One request alone, scheduled fairly: its goroutine keeps running.
SoloSpec == Init /\ [][Step(1)]_vars /\ WF_vars(Step(1))

\* ----------------------------------------------------------- vocabulary

\* getFile of request r has returned to fileHandler.
Returned(r) == pc[r] \in {"respond", "done"}

Done(r) == pc[r] = "done"

\* The open of request r succeeded: getFile holds a handle.
Opened(r) == gfsFile[r] # NoHandle

\* The stored bytes of the object behind the handle of request r.
DataOf(r) == gfs[handles[gfsFile[r]].obj].data

\* The number of bytes the store has delivered on the handle of request r.
Delivered(r) == handles[gfsFile[r]].offset

\* The reads of request r ended with end-of-stream.
Drained(r) == Opened(r) /\ Returned(r) /\ loopErr[r] = "EOF"

\* The reads of request r ended with a failure after at least one read
\* that delivered data.
FailedMidway(r) ==
    Opened(r) /\ Returned(r) /\ loopErr[r] = "IOError" /\ reads[r] > 1 /\ Delivered(r) > 0

\* The object a key denotes under the configured field, 0 if none.
Denoted(key) ==
    IF conf.Field = "_id"
    THEN (IF key = <<"a">> THEN 1 ELSE IF key = <<"b">> THEN 2 ELSE 0)
    ELSE (IF key = <<"b">> THEN 1 ELSE IF key = <<"a">> THEN 2 ELSE 0)

\* The Content-Disposition value for an attachment of a given name.
Attachment(name) == <<"attachment; filename=", "\"">> \o name \o <<"\"">>

ErrorLines(r) == SelectSeq(logged[r], LAMBDA l : l[1] = "error")

\* ------------------------------------------------------------------ C1

\* C1: the buffer of getFile is at every moment exactly the bytes the store
\* has delivered on its handle, in order, and once the reads have ended with
\* end-of-stream it is the whole object, byte for byte: every read with a
\* byte count > 0 was appended, none twice, none dropped, however the store
\* split the object into reads.
C1_BufferIsSource ==
    \A r \in Reqs :
        Opened(r) =>
            /\ file[r] = SubSeq(DataOf(r), 1, Delivered(r))
            /\ Drained(r) => /\ file[r] = DataOf(r)
                             /\ Len(file[r]) = Len(DataOf(r))

\* An object longer than one buffer was drained in so few reads that the last
\* one carried data together with end-of-stream.
C1_Witness ==
    \E r \in Reqs :
        /\ Drained(r)
        /\ Len(DataOf(r)) > ReadBufLen
        /\ (reads[r] - 1) * ReadBufLen < Len(DataOf(r))
        /\ file[r] = DataOf(r)

\* ------------------------------------------------------------------ C2

\* C2: when data reads are followed by a read that fails with an error other
\* than end-of-stream, getFile returns a non-nil error and an empty buffer.
C2_FailureDiscardsPartial ==
    \A r \in Reqs :
        FailedMidway(r) => err[r] # "nil" /\ file[r] = Empty

\* ------------------------------------------------------------------ C3

\* C3: once getFile has returned after a successful open, Close has been
\* invoked on the handle exactly once and the handle is no longer open.
C3_ClosedOnce ==
    \A r \in Reqs :
        Opened(r) /\ Returned(r) =>
            closes[r] = 1 /\ ~handles[gfsFile[r]].open

\* ------------------------------------------------------------------ C4

\* C4: a call of getFile issues exactly one open, OpenId when the field is
\* "_id" and Open otherwise, and what it opens is the object the key denotes
\* in that mode only: a key that matches nothing in the configured mode opens
\* nothing, also when it matches an object in the other mode.
C4_OneOpenByField ==
    \A r \in Reqs :
        /\ Len(opens[r]) <= 1
        /\ pc[r] \notin {"idle", "open"} =>
               opens[r] = <<IF conf.Field = "_id" THEN "OpenId" ELSE "Open">>
        /\ Opened(r) =>
               /\ Denoted(path[r]) # 0
               /\ handles[gfsFile[r]].obj = Denoted(path[r])
               /\ conf.Field = "_id" => gfs[handles[gfsFile[r]].obj].id = path[r]
               /\ conf.Field # "_id" => gfs[handles[gfsFile[r]].obj].name = path[r]

\* In identifier mode key "a" was opened: the object whose id is "a", not the
\* one whose filename is "a".
C4_Witness ==
    \E r \in Reqs :
        /\ conf.Field = "_id"
        /\ Returned(r) /\ Opened(r)
        /\ path[r] = <<"a">>
        /\ gfs[handles[gfsFile[r]].obj].name # path[r]
        /\ \E o \in ObjIds : gfs[o].name = path[r]

\* ------------------------------------------------------------------ C5

\* C5: the lookup key is the request path without the handle path; a request
\* whose retrieval succeeded answers with status 200, the attachment filename
\* set to the name of the object (not to the key), and the whole retrieved
\* buffer as body, which is the whole object when the reads were drained.
C5_SuccessResponse ==
    \A r \in Reqs :
        /\ pc[r] # "idle" => urlPath[r] = HandlePath \o path[r]
        /\ Done(r) /\ err[r] = "nil" =>
               /\ Opened(r)
               /\ response[r].status = 200
               /\ response[r].header = Attachment(gfs[handles[gfsFile[r]].obj].name)
               /\ response[r].body = file[r]
               /\ Drained(r) => response[r].body = DataOf(r)

\* A request in identifier mode completed with a body longer than one buffer
\* and a filename that is not its key.
C5_Witness ==
    \E r \in Reqs :
        /\ Done(r) /\ err[r] = "nil" /\ Drained(r)
        /\ conf.Field = "_id"
        /\ filename[r] # path[r]
        /\ Len(response[r].body) > ReadBufLen

\* ------------------------------------------------------------------ C6

\* C6: when the open fails getFile returns an empty buffer, an empty name and
\* a non-nil error without having read, and fileHandler logs that error once
\* and answers with status 200, an empty body and an empty filename.
C6_OpenFailure ==
    \A r \in Reqs :
        /\ Returned(r) /\ ~Opened(r) =>
               /\ file[r] = Empty
               /\ filename[r] = Empty
               /\ err[r] # "nil"
               /\ reads[r] = 0
        /\ Done(r) /\ ~Opened(r) =>
               /\ ErrorLines(r) = << <<"error", err[r]>> >>
               /\ response[r].status = 200
               /\ response[r].body = Empty
               /\ response[r].header = Attachment(Empty)

\* A request for the key that names nothing completed.
C6_Witness ==
    \E r \in Reqs :
        /\ Done(r) /\ ~Opened(r)
        /\ path[r] = <<"c">>
        /\ err[r] = "ErrNotFound"

\* ------------------------------------------------------------------ C7

\* C7: concurrent requests do not touch each other's handle, buffer or name:
\* no two requests hold the same handle, the buffer of a request is always a
\* prefix of its own object, and a request whose reads were drained answers
\* with the content and the name of the object its own key denotes.  No
\* request waits for another: whatever the other one is doing, a request that
\* has not completed can take its next step.
C7_OwnContent ==
    /\ \A r \in Reqs : Done(r) \/ ENABLED Step(r)
    /\ \A r1, r2 \in Reqs :
           r1 # r2 /\ Opened(r1) /\ Opened(r2) => gfsFile[r1] # gfsFile[r2]
    /\ \A r \in Reqs :
           Opened(r) =>
               /\ Len(file[r]) <= Len(gfs[Denoted(path[r])].data)
               /\ file[r] = SubSeq(gfs[Denoted(path[r])].data, 1, Len(file[r]))
               /\ Done(r) /\ Drained(r) =>
                      /\ response[r].body = gfs[Denoted(path[r])].data
                      /\ response[r].header = Attachment(gfs[Denoted(path[r])].name)

\* Two requests for different existing keys are both in the middle of their
\* reads, each with part of its object in its buffer.
C7_Witness ==
    /\ pc[1] = "read" /\ pc[2] = "read"
    /\ path[1] # path[2]
    /\ 0 < Len(file[1]) /\ Len(file[1]) < Len(DataOf(1))
    /\ 0 < Len(file[2]) /\ Len(file[2]) < Len(DataOf(2))

\* ------------------------------------------------------------------ C8

\* C8: if the reads were drained and Close fails, getFile returns a non-nil
\* error.
C8_CloseFailureReported ==
    \A r \in Reqs :
        Drained(r) /\ closeErr # "nil" => err[r] # "nil"

\* ------------------------------------------------------------------ C9

\* What the store answered to request r: whether and with what the open
\* ended, how many bytes it delivered and how the reads ended.
Answers(r) ==
    <<Opened(r), IF Opened(r) THEN "nil" ELSE err[r],
      IF Opened(r) THEN Delivered(r) ELSE 0, loopErr[r]>>

SameResults ==
    \A r1, r2 \in Reqs :
        Done(r1) /\ Done(r2) /\ path[r1] = path[r2] /\ Answers(r1) = Answers(r2) =>
            /\ file[r1] = file[r2]
            /\ filename[r1] = filename[r2]
            /\ err[r1] = err[r2]
            /\ response[r1] = response[r2]

\* C9: no step changes the stored objects, and two retrievals of the same key
\* that got the same answers from the store return the same content, the same
\* name and the same error.
C9_Idempotent == []SameResults /\ [][gfs' = gfs]_vars

\* Two requests for the same key both completed with the whole object.
C9_Witness ==
    /\ Done(1) /\ Done(2)
    /\ path[1] = path[2]
    /\ Drained(1) /\ Drained(2)
    /\ Len(file[1]) > ReadBufLen
    /\ file[1] = file[2]

\* ----------------------------------------------------------------- C10

\* C10: the loop goes on only while reads return no error, no read is issued
\* on a handle after a read of it returned an error, and once a read has
\* returned an error getFile returns.
C10_StopsAtFirstError ==
    /\ [](\A r \in Reqs : pc[r] = "read" => loopErr[r] = "nil")
    /\ [][\A r \in Reqs : loopErr[r] # "nil" => reads'[r] = reads[r]]_vars
    /\ \A r \in Reqs : (loopErr[r] # "nil") ~> Returned(r)

\* The second or a later read of a request failed before the object was
\* delivered whole, and getFile has returned.
C10_Witness ==
    /\ FailedMidway(1)
    /\ Delivered(1) < Len(DataOf(1))
    /\ reads[1] <= MaxReads

====
